---- MODULE Spec2Model ----
(***************************************************************************)
(* A model of src/main.py: the multi-agent content generation pipeline.    *)
(*                                                                         *)
(* One product record is parsed (DataParserAgent), expanded into a list of *)
(* categorised questions (QuestionGeneratorAgent), and rendered into three *)
(* pages (TemplateRendererAgent) by WorkflowOrchestrator.execute_pipeline, *)
(* which main() drives once and then prints and saves.                     *)
(*                                                                         *)
(* Python values are modelled as follows:                                  *)
(*   str            a TLA+ string; f-strings and str.format concatenate    *)
(*                  with \o, str(int) is ToString                          *)
(*   list           a sequence                                             *)
(*   dict/dataclass a record (a function on its keys)                      *)
(*   set of str     a set; list(set) enumerates it in the order that the   *)
(*                  interpreter's string hash seed fixes (hashSeed)        *)
(*   None           the record [None |-> TRUE]                             *)
(*   type of a value  read off its printed form (type_of): the values of   *)
(*                  IllTypedStrings are str, those of IllTypedLists are    *)
(*                  lists of int, None is NoneType, and every other value  *)
(*                  of a field has the type ProductModel declares for it   *)
(*   exception      a record with the exception's class name in type       *)
(* The module text is ASCII: the rupee sign U+20B9 is written "Rs" and the *)
(* en dash U+2013 of the usage text is written "-".                        *)
(***************************************************************************)
EXTENDS Integers, Sequences, FiniteSets, TLC

VARIABLES
    hashSeed,        \* the interpreter process's string hash seed
    pc,              \* position of the running program
    caller,          \* who drives the orchestrator: "main" (script run), "lib"
                     \* (execute_pipeline called directly) or "nobody" (not yet known)
    raw,             \* raw_product_data of the current execute_pipeline call
    state,           \* WorkflowOrchestrator.state
    execution_log,   \* WorkflowOrchestrator.execution_log
    locals,          \* local variables of execute_pipeline
    result,          \* value returned by the last execute_pipeline call, or None
    error,           \* exception raised by the last execute_pipeline call, or None
    io,              \* I/O events of this process, in order
    calls,           \* number of execute_pipeline calls started so far
    returned,        \* every <<raw input, returned pages>> a caller has received
    faqIn,           \* question sequence handed to _render_faq on its own
    faqOut,          \* what _render_faq returned for faqIn, or None
    cmpA,            \* first record handed to the compare_* blocks on their own
    cmpB,            \* second record handed to the compare_* blocks
    cmpOut           \* what the compare_* blocks returned, or None

pipeVars == <<pc, caller, raw, state, execution_log, locals, result, error, io,
              calls, returned>>
faqVars == <<faqIn, faqOut>>
cmpVars == <<cmpA, cmpB, cmpOut>>
vars == <<hashSeed, pipeVars, faqVars, cmpVars>>

None == [None |-> TRUE]

\* ------------------------------------------------------------------ bounds

\* execute_pipeline calls explored in one behaviour
MaxCalls == 2
\* longest question sequence handed to _render_faq on its own
MaxQLen == 6
\* longest ingredient list of a record handed to the compare_* blocks
MaxIngr == 2

\* --------------------------------------------------------- string helpers

RECURSIVE join(_, _)
\* sep.join(items)
join(sep, items) ==
    IF Len(items) = 0 THEN ""
    ELSE IF Len(items) = 1 THEN items[1]
    ELSE items[1] \o sep \o join(sep, Tail(items))

\* set(items)
set(items) == {items[i] : i \in DOMAIN items}

\* The strings that occur in sets of the program, in one fixed order.
StrUniverse ==
    <<"Vitamin C", "Hyaluronic Acid", "Vitamin E", "Ferulic Acid", "Niacinamide",
      "Informational", "Usage", "Safety", "Skin Type", "Benefits", "Purchase",
      "Comparison", "Other">>

Reverse(s) == [i \in 1..Len(s) |-> s[Len(s) + 1 - i]]

\* The hash seeds a process may start with (PYTHONHASHSEED is random by
\* default). A seed fixes the iteration order of every set of str.
HashSeeds == {0, 1}

SetOrder(seed) == IF seed = 0 THEN StrUniverse ELSE Reverse(StrUniverse)

\* list(s) for a set s of str, in a process whose hash seed is seed
list(s, seed) == SelectSeq(SetOrder(seed), LAMBDA x : x \in s)

\* ------------------------------------------------------------ value types

\* The str values that the model passes where ProductModel declares an int.
IllTypedStrings == {"abc"}

\* The lists of int that the model passes where ProductModel declares List[str].
IllTypedLists == {<<1, 2>>}

\* type(v).__name__ of a field value v, told by the printed form of v.
type_of(v) ==
    LET r == ToString(v)
    IN  IF r = ToString(None) THEN "NoneType"
        ELSE IF r \in {ToString(x) : x \in IllTypedStrings} THEN "str"
        ELSE IF r \in {ToString(x) : x \in IllTypedLists} THEN "list[int]"
        ELSE "declared"

\* str(v), as an f-string formats a value
str(v) ==
    IF type_of(v) = "str" THEN v
    ELSE IF type_of(v) = "NoneType" THEN "None"
    ELSE ToString(v)

\* The built-in exception that an operation on a value of the wrong type raises.
TypeError == [type |-> "TypeError"]

\* Whether sep.join(items) raises TypeError: items is not iterable, or an
\* item of it is not a str.
join_raises(items) == type_of(items) \in {"NoneType", "list[int]"}

\* Whether a - b raises TypeError: an int minus a str or None, or the reverse.
sub_raises(a, b) == type_of(a) \in {"str", "NoneType"} \/ type_of(b) \in {"str", "NoneType"}

\* ------------------------------------------------------------ 2. LogicBlocks

RupeeSign == "Rs"

extract_benefits(product) ==
    [section_type |-> "benefits",
     title |-> "Key Benefits",
     items |-> [i \in 1..Len(product.benefits) |->
                   [benefit |-> product.benefits[i], emphasis |-> "high"]]]

generate_usage_instructions(product) ==
    [section_type |-> "usage",
     title |-> "How to Use",
     instructions |-> product.usage,
     frequency |-> "Daily",
     timing |-> "Morning",
     application_method |-> "Topical"]

format_ingredients(product) ==
    [section_type |-> "ingredients",
     title |-> "Active Ingredients",
     primary |-> IF Len(product.ingredients) > 0 THEN product.ingredients[1] ELSE None,
     all_ingredients |-> product.ingredients,
     concentration |-> product.concentration]

create_safety_content(product) ==
    [section_type |-> "safety",
     title |-> "Safety Information",
     side_effects |-> product.side_effects,
     severity |-> "mild",
     recommendation |-> "Patch test recommended for sensitive skin"]

format_price(product) ==
    [section_type |-> "price",
     amount |-> product.price,
     currency |-> "INR",
     formatted |-> RupeeSign \o str(product.price)]

skin_type_matcher(product) ==
    [section_type |-> "skin_types",
     title |-> "Suitable For",
     types |-> product.skin_types,
     recommendation |-> "Ideal for " \o join(" and ", product.skin_types) \o " skin"]

\* A slip that swaps the operands of the second difference.
compare_ingredients_swapped(product_a, product_b, seed) ==
    LET common == set(product_a.ingredients) \cap set(product_b.ingredients)
        unique_a == set(product_b.ingredients) \ set(product_a.ingredients)
        unique_b == set(product_b.ingredients) \ set(product_a.ingredients)
    IN  [comparison_type |-> "ingredients",
         common_ingredients |-> list(common, seed),
         unique_to_product_a |-> list(unique_a, seed),
         unique_to_product_b |-> list(unique_b, seed)]

compare_ingredients(product_a, product_b, seed) ==
    LET common == set(product_a.ingredients) \cap set(product_b.ingredients)
        unique_a == set(product_a.ingredients) \ set(product_b.ingredients)
        unique_b == set(product_b.ingredients) \ set(product_a.ingredients)
    IN  [comparison_type |-> "ingredients",
         common_ingredients |-> list(common, seed),
         unique_to_product_a |-> list(unique_a, seed),
         unique_to_product_b |-> list(unique_b, seed)]

compare_benefits(product_a, product_b) ==
    [comparison_type |-> "benefits",
     product_a_benefits |-> product_a.benefits,
     product_b_benefits |-> product_b.benefits,
     overlap |-> Cardinality(set(product_a.benefits) \cap set(product_b.benefits))]

abs(n) == IF n < 0 THEN -n ELSE n

\* A slip that treats equal prices as "a is cheaper".
compare_price_le(product_a, product_b) ==
    LET diff == product_a.price - product_b.price
        cheaper == IF diff <= 0 THEN product_a.name ELSE product_b.name
    IN  [comparison_type |-> "price",
         product_a_price |-> product_a.price,
         product_b_price |-> product_b.price,
         difference |-> abs(diff),
         cheaper_product |-> cheaper]

\* Whether compare_price raises: the subtraction of the two prices does.
compare_price_raises(product_a, product_b) == sub_raises(product_a.price, product_b.price)

compare_price(product_a, product_b) ==
    LET diff == product_a.price - product_b.price
        cheaper == IF diff < 0 THEN product_a.name ELSE product_b.name
    IN  [comparison_type |-> "price",
         product_a_price |-> product_a.price,
         product_b_price |-> product_b.price,
         difference |-> abs(diff),
         cheaper_product |-> cheaper]

\* A slip that makes the competitor a copy of the input with another name.
generate_fictional_competitor_copy(product) ==
    [product EXCEPT !.name = "RadiantGlow Vitamin C Complex"]

generate_fictional_competitor(product) ==
    [name |-> "RadiantGlow Vitamin C Complex",
     concentration |-> "15% Vitamin C",
     skin_types |-> <<"All Skin Types", "Sensitive">>,
     ingredients |-> <<"Vitamin C", "Vitamin E", "Ferulic Acid">>,
     benefits |-> <<"Anti-aging", "Brightening", "Antioxidant protection">>,
     usage |-> "Apply 3-4 drops in the evening after cleansing",
     side_effects |-> "May cause slight redness initially",
     price |-> 899]

\* ---------------------------------------------------------------- 3. Agents

\* The keys DataParserAgent.execute reads, in the order it reads them.
FieldOrder ==
    <<"name", "concentration", "skin_types", "ingredients", "benefits", "usage",
      "side_effects", "price">>

\* The keys of FieldOrder that input_data lacks.
MissingFields(input_data) ==
    {FieldOrder[i] : i \in {j \in DOMAIN FieldOrder : FieldOrder[j] \notin DOMAIN input_data}}

\* The first key that input_data[...] fails on.
FirstMissing(input_data) ==
    FieldOrder[CHOOSE i \in DOMAIN FieldOrder :
                  /\ FieldOrder[i] \notin DOMAIN input_data
                  /\ \A j \in 1..(i - 1) : FieldOrder[j] \in DOMAIN input_data]

KeyError(key) == [type |-> "KeyError", key |-> key]

\* A slip that reads the fields with dict.get and a default of the field's type.
DataParserAgent_execute_get(input_data) ==
    [ok |-> TRUE,
     value |-> [k \in set(FieldOrder) |->
                   IF k \in DOMAIN input_data THEN input_data[k]
                   ELSE IF k = "price" THEN 0
                   ELSE IF k \in {"skin_types", "ingredients", "benefits"} THEN <<>>
                   ELSE ""]]

\* Returns the ProductModel, or the exception that the first absent key raises.
DataParserAgent_execute(input_data) ==
    IF MissingFields(input_data) # {}
    THEN [ok |-> FALSE, error |-> KeyError(FirstMissing(input_data))]
    ELSE [ok |-> TRUE, value |-> [k \in set(FieldOrder) |-> input_data[k]]]

\* A template "pre{product_name}post" is the record [pre, post].
T(pre, post) == [pre |-> pre, post |-> post]

QUESTION_TEMPLATES ==
    << [category |-> "Informational", templates |->
          << T("What is ", "?"),
             T("What makes ", " effective?"),
             T("What is the concentration of active ingredients in ", "?") >>],
       [category |-> "Usage", templates |->
          << T("How do I use ", "?"),
             T("When should I apply ", "?"),
             T("Can I use ", " with other products?"),
             T("How many drops of ", " should I use?") >>],
       [category |-> "Safety", templates |->
          << T("Are there any side effects of ", "?"),
             T("Is ", " safe for sensitive skin?"),
             T("What precautions should I take when using ", "?") >>],
       [category |-> "Skin Type", templates |->
          << T("Is ", " suitable for my skin type?"),
             T("Can oily skin use ", "?"),
             T("Is ", " good for combination skin?") >>],
       [category |-> "Benefits", templates |->
          << T("What are the main benefits of ", "?"),
             T("How long until I see results from ", "?"),
             T("Does ", " help with dark spots?") >>],
       [category |-> "Purchase", templates |->
          << T("How much does ", " cost?"),
             T("Where can I buy ", "?"),
             T("Is ", " worth the price?") >>],
       [category |-> "Comparison", templates |->
          << T("How does ", " compare to other vitamin C serums?"),
             T("What makes ", " different?"),
             T("Should I choose ", " or another serum?") >>] >>

\* template.format(product_name=name)
format(template, product_name) == template.pre \o product_name \o template.post

_generate_answer(category, product) ==
    CASE category = "Informational" ->
            product.name \o " is a " \o product.concentration \o " serum designed for "
                \o join(", ", product.skin_types) \o " skin types."
      [] category = "Usage" -> product.usage
      [] category = "Safety" -> "Possible side effects include: " \o product.side_effects
      [] category = "Skin Type" ->
            "Yes, " \o product.name \o " is suitable for "
                \o join(", ", product.skin_types) \o " skin types."
      [] category = "Benefits" -> "Key benefits include: " \o join(", ", product.benefits)
      [] category = "Purchase" -> "The price is " \o RupeeSign \o str(product.price)
      [] category = "Comparison" ->
            product.name \o " features " \o join(", ", product.ingredients) \o " at "
                \o product.concentration \o "."
      [] OTHER -> "Based on product data: " \o product.name

\* A variant that indexes the first element of each list field, which
\* raises on an empty list as well.
_generate_answer_raises_on_empty(product) ==
    \/ join_raises(product.skin_types) \/ Len(product.skin_types) = 0
    \/ join_raises(product.benefits) \/ Len(product.benefits) = 0
    \/ join_raises(product.ingredients) \/ Len(product.ingredients) = 0

\* Whether _generate_answer raises: its dict of answers is built whole for
\* every category, so each of the three joins is evaluated in every call.
_generate_answer_raises(product) ==
    \/ join_raises(product.skin_types)
    \/ join_raises(product.benefits)
    \/ join_raises(product.ingredients)

Question(category, question, answer) ==
    [category |-> category, question |-> question, answer |-> answer]

\* The inner loop: one Question per template of one category.
CategoryQuestions(entry, product) ==
    [i \in 1..Len(entry.templates) |->
        Question(entry.category,
                 format(entry.templates[i], product.name),
                 _generate_answer(entry.category, product))]

RECURSIVE AllQuestions(_, _)
\* The outer loop over QUESTION_TEMPLATES.items(), in insertion order.
AllQuestions(catalog, product) ==
    IF Len(catalog) = 0 THEN <<>>
    ELSE CategoryQuestions(Head(catalog), product) \o AllQuestions(Tail(catalog), product)

\* The 20 of "return questions[:20]".
QuestionLimit == 20

Min(a, b) == IF a < b THEN a ELSE b

\* A slip that forgets the slice and returns every question of the catalog.
QuestionGeneratorAgent_execute_all(input_data) ==
    AllQuestions(QUESTION_TEMPLATES, input_data)

\* A slip that returns the first two questions only ([:2] for [:20]).
QuestionGeneratorAgent_execute_short(input_data) ==
    LET questions == AllQuestions(QUESTION_TEMPLATES, input_data)
    IN  SubSeq(questions, 1, Min(2, Len(questions)))

\* Whether QuestionGeneratorAgent.execute raises: the answer of its first
\* template does.
QuestionGeneratorAgent_execute_raises(input_data) == _generate_answer_raises(input_data)

QuestionGeneratorAgent_execute(input_data) ==
    LET questions == AllQuestions(QUESTION_TEMPLATES, input_data)
    IN  SubSeq(questions, 1, Min(QuestionLimit, Len(questions)))

PageType == [FAQ |-> "faq", PRODUCT |-> "product", COMPARISON |-> "comparison"]

ContentStrategyAgent_execute(input_data) ==
    LET page_type == input_data.page_type
        strategies ==
            [faq |->
                [required_blocks |->
                    <<"extract_benefits", "generate_usage_instructions",
                      "create_safety_content", "format_price">>,
                 composition_order |-> <<"informational", "usage", "safety", "purchase">>],
             product |->
                [required_blocks |->
                    <<"extract_benefits", "format_ingredients",
                      "generate_usage_instructions", "skin_type_matcher", "format_price",
                      "create_safety_content">>,
                 composition_order |->
                    <<"hero", "benefits", "ingredients", "usage", "skin_types", "price",
                      "safety">>],
             comparison |->
                [required_blocks |->
                    <<"compare_ingredients", "compare_benefits", "compare_price">>,
                 composition_order |-> <<"products", "comparison_matrix", "recommendation">>]]
        strategy == strategies[page_type]
    IN  [page_type |-> page_type,
         required_blocks |-> strategy.required_blocks,
         composition_order |-> strategy.composition_order]

\* Whether ComparisonAgent.execute raises: compare_price against the
\* competitor does (the list fields have passed the joins of step 2).
ComparisonAgent_execute_raises(input_data) ==
    compare_price_raises(input_data, generate_fictional_competitor(input_data))

ComparisonAgent_execute(input_data, seed) ==
    LET competitor == generate_fictional_competitor(input_data)
    IN  [product_a |-> input_data,
         product_b |-> competitor,
         comparisons |->
            [ingredients |-> compare_ingredients(input_data, competitor, seed),
             benefits |-> compare_benefits(input_data, competitor),
             price |-> compare_price(input_data, competitor)]]

\* The 5 of "len(selected_questions) < 5".
max_questions == 5

RECURSIVE SelectQuestions(_, _, _)
\* The selection loop of _render_faq over the questions not yet visited:
\* returns the final selected_questions and categories_used.
SelectQuestions(questions, selected_questions, categories_used) ==
    IF Len(questions) = 0
    THEN [selected_questions |-> selected_questions, categories_used |-> categories_used]
    ELSE LET q == Head(questions)
         IN  IF q.category \notin categories_used /\ Len(selected_questions) < max_questions
             THEN SelectQuestions(Tail(questions), Append(selected_questions, q),
                                  categories_used \cup {q.category})
             ELSE SelectQuestions(Tail(questions), selected_questions, categories_used)

\* Question.to_dict: asdict of a dataclass of three str fields.
Question_to_dict(q) == [category |-> q.category, question |-> q.question, answer |-> q.answer]

\* A slip that drops the category test and keeps the first questions seen.
_render_faq_no_category_test(data, strategy, seed) ==
    LET product == data.product
        questions == data.questions
        selected_questions == SubSeq(questions, 1, Min(max_questions, Len(questions)))
        categories_used == {selected_questions[i].category : i \in DOMAIN selected_questions}
    IN  [page_type |-> "faq",
         product_name |-> product.name,
         total_questions |-> Len(selected_questions),
         questions |-> [i \in 1..Len(selected_questions) |->
                           Question_to_dict(selected_questions[i])],
         metadata |-> [generated_from |-> "product_data",
                       categories |-> list(categories_used, seed)]]

\* A slip that drops the length test and keeps one question of every category.
_render_faq_no_length_test(data, strategy, seed) ==
    LET product == data.product
        questions == data.questions
        firsts == SelectSeq([i \in 1..Len(questions) |-> [i |-> i, q |-> questions[i]]],
                            LAMBDA e : \A j \in 1..(e.i - 1) :
                                          questions[j].category # e.q.category)
        selected_questions == [i \in 1..Len(firsts) |-> firsts[i].q]
        categories_used == {selected_questions[i].category : i \in DOMAIN selected_questions}
    IN  [page_type |-> "faq",
         product_name |-> product.name,
         total_questions |-> Len(selected_questions),
         questions |-> [i \in 1..Len(selected_questions) |->
                           Question_to_dict(selected_questions[i])],
         metadata |-> [generated_from |-> "product_data",
                       categories |-> list(categories_used, seed)]]

_render_faq(data, strategy, seed) ==
    LET product == data.product
        questions == data.questions
        sel == SelectQuestions(questions, <<>>, {})
        selected_questions == sel.selected_questions
        categories_used == sel.categories_used
    IN  [page_type |-> "faq",
         product_name |-> product.name,
         total_questions |-> Len(selected_questions),
         questions |-> [i \in 1..Len(selected_questions) |->
                           Question_to_dict(selected_questions[i])],
         metadata |-> [generated_from |-> "product_data",
                       categories |-> list(categories_used, seed)]]

_render_product(data, strategy) ==
    LET product == data.product
    IN  [page_type |-> "product",
         hero |-> [product_name |-> product.name,
                   tagline |-> "Professional " \o product.concentration
                                  \o " serum for visible results"],
         details |-> [benefits |-> extract_benefits(product),
                      ingredients |-> format_ingredients(product),
                      usage |-> generate_usage_instructions(product),
                      skin_types |-> skin_type_matcher(product)],
         pricing |-> format_price(product),
         safety |-> create_safety_content(product),
         metadata |-> [product_category |-> "Skincare", product_type |-> "Serum"]]

_render_comparison(data, strategy) ==
    LET comparison_data == data.comparison
        product_a == comparison_data.product_a
        product_b == comparison_data.product_b
        comparisons == comparison_data.comparisons
    IN  [page_type |-> "comparison",
         products |->
            [product_a |-> [name |-> product_a.name,
                            concentration |-> product_a.concentration,
                            price |-> product_a.price,
                            ingredients |-> product_a.ingredients,
                            benefits |-> product_a.benefits],
             product_b |-> [name |-> product_b.name,
                            concentration |-> product_b.concentration,
                            price |-> product_b.price,
                            ingredients |-> product_b.ingredients,
                            benefits |-> product_b.benefits]],
         comparison_matrix |-> [ingredients |-> comparisons.ingredients,
                                benefits |-> comparisons.benefits,
                                price |-> comparisons.price],
         recommendation |->
            [summary |-> product_a.name \o " offers great value with "
                            \o product_a.concentration \o " while " \o product_b.name
                            \o " provides higher concentration at "
                            \o product_b.concentration,
             best_for_budget |-> comparisons.price.cheaper_product]]

\* The dispatch on template_type; seed is the process's hash seed.
TemplateRendererAgent_execute(input_data, seed) ==
    LET template_type == input_data.template_type
        data == input_data.data
        strategy == input_data.strategy
    IN  CASE template_type = PageType.FAQ -> _render_faq(data, strategy, seed)
          [] template_type = PageType.PRODUCT -> _render_product(data, strategy)
          [] template_type = PageType.COMPARISON -> _render_comparison(data, strategy)

\* ---------------------------------------------------------- I/O events

\* print(text), issued by the code of "by"
print(by, text) == [by |-> by, kind |-> "print", target |-> "stdout", data |-> text]

\* json.dumps / json.dump of obj with indent=2: the document is kept as the
\* object it serialises together with the escaping option that was used.
json_dumps(obj, ensure_ascii) == [json |-> obj, indent |-> 2, ensure_ascii |-> ensure_ascii]

\* with open(path, 'w') as f: json.dump(obj, f, ...), issued by the code of "by"
write(by, path, obj) ==
    [by |-> by, kind |-> "write", target |-> path, data |-> json_dumps(obj, FALSE)]

print_json(by, obj) ==
    [by |-> by, kind |-> "print", target |-> "stdout", data |-> json_dumps(obj, TRUE)]

makedirs(by, path) == [by |-> by, kind |-> "mkdir", target |-> path, data |-> None]

\* ------------------------------------------------------------ 4. Orchestrator

EmptyDict == <<>>

\* d[k] = v on a dict
\* A variant that keeps the value a key already has: d.setdefault(k, v).
SetItem_setdefault(d, k, v) == [x \in DOMAIN d \cup {k} |-> IF x \in DOMAIN d THEN d[x] ELSE v]

SetItem(d, k, v) == [x \in DOMAIN d \cup {k} |-> IF x = k THEN v ELSE d[x]]

NoLocals ==
    [faq_strategy |-> None, faq_page |-> None, product_strategy |-> None,
     product_page |-> None, comparison_data |-> None, comparison_strategy |-> None,
     comparison_page |-> None]

\* A slip that records the step without printing it.
_log_step_silent(self, message) ==
    [execution_log |-> Append(self.execution_log, message), io |-> self.io]

\* _log_step on the orchestrator's log and the process's output:
\* self is [execution_log, io], the result is the two after the call.
_log_step(self, message) ==
    [execution_log |-> Append(self.execution_log, message),
     io |-> Append(self.io, print("core", "[Orchestrator] " \o message))]

Self == [execution_log |-> execution_log, io |-> io]

\* The positions inside execute_pipeline, in program order.
PipelinePcs ==
    <<"parse", "questions", "faq_strategy", "faq_render", "product_strategy",
      "product_render", "comparison_data", "comparison_strategy", "comparison_render",
      "return">>

InPipeline == pc \in set(PipelinePcs)

\* ------------------------------------------------------- 5. Main execution

\* raw_product_data of main()
MainRawData ==
    [name |-> "GlowBoost Vitamin C Serum",
     concentration |-> "10% Vitamin C",
     skin_types |-> <<"Oily", "Combination">>,
     ingredients |-> <<"Vitamin C", "Hyaluronic Acid">>,
     benefits |-> <<"Brightening", "Fades dark spots">>,
     usage |-> "Apply 2-3 drops in the morning before sunscreen",
     side_effects |-> "Mild tingling for sensitive skin",
     price |-> 699]

\* What main() prints before it calls execute_pipeline.
MainBanner ==
    << print("main", "======"), print("main", "MULTI-AGENT CONTENT GENERATION SYSTEM"),
       print("main", "======"), print("main", ""),
       print("main", "Starting pipeline execution...\n") >>

\* What main() prints between the return of execute_pipeline and save_outputs.
MainReport(results) ==
    << print("main", "\n======"), print("main", "PIPELINE COMPLETED SUCCESSFULLY"),
       print("main", "======"), print("main", "\n[Output] Generated Pages:\n"),
       print("main", "1. FAQ Page:"), print_json("main", results.faq),
       print("main", "\n------\n"),
       print("main", "2. Product Page:"), print_json("main", results.product),
       print("main", "\n------\n"),
       print("main", "3. Comparison Page:"), print_json("main", results.comparison) >>

\* A slip that writes the FAQ page to all three files.
save_outputs_faq_only(results) ==
    << makedirs("save_outputs", "output"),
       write("save_outputs", "output/faq.json", results.faq),
       write("save_outputs", "output/product_page.json", results.faq),
       write("save_outputs", "output/comparison_page.json", results.faq),
       print("save_outputs", "\nJSON files saved to output/ directory") >>

\* The I/O of save_outputs(results), in order.
save_outputs(results) ==
    << makedirs("save_outputs", "output"),
       write("save_outputs", "output/faq.json", results.faq),
       write("save_outputs", "output/product_page.json", results.product),
       write("save_outputs", "output/comparison_page.json", results.comparison),
       print("save_outputs", "\nJSON files saved to output/ directory") >>

\* ------------------------------------------------- inputs of the pipeline

Without(d, keys) == [k \in DOMAIN d \ keys |-> d[k]]

\* Raw inputs a caller of execute_pipeline may pass: main's record, records
\* that differ from it in one field, and records that lack fields.
RawInputs ==
    { MainRawData,
      [MainRawData EXCEPT !.price = 899],
      [MainRawData EXCEPT !.price = 1200],
      [MainRawData EXCEPT !.name = "RadiantGlow Vitamin C Complex", !.price = 899],
      [MainRawData EXCEPT !.ingredients = <<>>],
      [MainRawData EXCEPT !.ingredients = <<"Ferulic Acid", "Vitamin E", "Ferulic Acid">>],
      [MainRawData EXCEPT !.benefits = <<>>, !.skin_types = <<>>],
      Without(MainRawData, {"price"}),
      Without(MainRawData, {"name"}),
      Without(MainRawData, {"ingredients", "price"}),
      Without(MainRawData, set(FieldOrder)) }

\* Raw inputs that hold all eight keys and a value of the wrong type: a
\* record of one benefit whose price is a str, one whose ingredients are ints
\* and one whose skin_types is None.
IllTypedBase == [MainRawData EXCEPT !.benefits = <<"Brightening">>]

IllTypedInputs ==
    << [IllTypedBase EXCEPT !.price = "abc"],
       [IllTypedBase EXCEPT !.ingredients = <<1, 2>>],
       [IllTypedBase EXCEPT !.skin_types = None] >>

\* ----------------------------------------------------------------- actions

FaqIdle == faqIn = <<>> /\ faqOut = None
CmpIdle == cmpA = None /\ cmpB = None /\ cmpOut = None

\* A fresh interpreter process: nothing constructed yet.
Boot ==
    /\ hashSeed \in HashSeeds
    /\ pc = "boot"
    /\ caller = "nobody"
    /\ raw = None
    /\ state = EmptyDict
    /\ execution_log = <<>>
    /\ locals = NoLocals
    /\ result = None
    /\ error = None
    /\ io = <<>>

Init ==
    /\ Boot
    /\ calls = 0
    /\ returned = {}
    /\ FaqIdle
    /\ CmpIdle

\* The interpreter is started again (a new hash seed, a new orchestrator);
\* what callers received so far is kept for comparison.
NewProcess ==
    /\ pc \in {"idle", "exited", "crashed"}
    /\ calls < MaxCalls
    /\ hashSeed' \in HashSeeds
    /\ pc' = "boot"
    /\ caller' = "nobody"
    /\ raw' = None
    /\ state' = EmptyDict
    /\ execution_log' = <<>>
    /\ locals' = NoLocals
    /\ result' = None
    /\ error' = None
    /\ io' = <<>>
    /\ UNCHANGED <<calls, returned, faqVars, cmpVars>>

\* python main.py: main() prints its banner, constructs the orchestrator and
\* calls execute_pipeline(raw_product_data).
MainBegin ==
    /\ pc = "boot"
    /\ calls < MaxCalls
    /\ caller' = "main"
    /\ io' = io \o MainBanner
    /\ state' = EmptyDict
    /\ execution_log' = <<>>
    /\ raw' = MainRawData
    /\ locals' = NoLocals
    /\ result' = None
    /\ error' = None
    /\ calls' = calls + 1
    /\ pc' = "parse"
    /\ UNCHANGED <<hashSeed, returned, faqVars, cmpVars>>

\* WorkflowOrchestrator() constructed by a caller other than main().
Construct ==
    /\ pc = "boot"
    /\ caller' = "lib"
    /\ state' = EmptyDict
    /\ execution_log' = <<>>
    /\ pc' = "idle"
    /\ UNCHANGED <<hashSeed, raw, locals, result, error, io, calls, returned,
                   faqVars, cmpVars>>

\* orchestrator.execute_pipeline(r) called on the constructed orchestrator.
Call ==
    /\ pc = "idle"
    /\ calls < MaxCalls
    /\ \/ \E r \in RawInputs : raw' = r
       \/ \E i \in DOMAIN IllTypedInputs : raw' = IllTypedInputs[i]
    /\ locals' = NoLocals
    /\ result' = None
    /\ error' = None
    /\ calls' = calls + 1
    /\ pc' = "parse"
    /\ UNCHANGED <<hashSeed, caller, state, execution_log, io, returned, faqVars, cmpVars>>

\* Step 1: parse. A KeyError leaves execute_pipeline at once.
StepParse ==
    /\ pc = "parse"
    /\ LET ls == _log_step(Self, "Parsing product data")
           r == DataParserAgent_execute(raw)
       IN  /\ execution_log' = ls.execution_log
           /\ io' = ls.io
           /\ IF r.ok
              THEN /\ state' = SetItem(state, "product", r.value)
                   /\ error' = error
                   /\ pc' = "questions"
              ELSE /\ state' = state
                   /\ error' = r.error
                   /\ pc' = IF caller = "main" THEN "crashed" ELSE "idle"
    /\ UNCHANGED <<hashSeed, caller, raw, locals, result, calls, returned, faqVars, cmpVars>>

\* An exception leaves execute_pipeline from the step at pc, after the
\* step's _log_step: nothing is assigned, and the caller sees the exception.
Raise(at, message, exception) ==
    /\ pc = at
    /\ LET ls == _log_step(Self, message)
       IN  /\ execution_log' = ls.execution_log
           /\ io' = ls.io
    /\ error' = exception
    /\ pc' = IF caller = "main" THEN "crashed" ELSE "idle"
    /\ UNCHANGED <<hashSeed, caller, raw, state, locals, result, calls, returned,
                   faqVars, cmpVars>>

\* Step 2: generate questions. A TypeError of a join leaves execute_pipeline.
StepQuestions ==
    /\ pc = "questions"
    /\ IF QuestionGeneratorAgent_execute_raises(state.product)
       THEN Raise("questions", "Generating user questions", TypeError)
       ELSE /\ LET ls == _log_step(Self, "Generating user questions")
               IN  /\ execution_log' = ls.execution_log
                   /\ io' = ls.io
            /\ state' = SetItem(state, "questions",
                                QuestionGeneratorAgent_execute(state.product))
            /\ pc' = "faq_strategy"
            /\ UNCHANGED <<hashSeed, caller, raw, locals, result, error, calls, returned,
                           faqVars, cmpVars>>

\* A step that logs message, assigns value to the local variable and moves on.
LocalStep(at, message, local, value, next) ==
    /\ pc = at
    /\ LET ls == _log_step(Self, message)
       IN  /\ execution_log' = ls.execution_log
           /\ io' = ls.io
    /\ locals' = [locals EXCEPT ![local] = value]
    /\ pc' = next
    /\ UNCHANGED <<hashSeed, caller, raw, state, result, error, calls, returned,
                   faqVars, cmpVars>>

\* Step 3: FAQ page.
StepFaqStrategy ==
    LocalStep("faq_strategy", "Planning FAQ page strategy", "faq_strategy",
              ContentStrategyAgent_execute([product |-> state.product,
                                            page_type |-> PageType.FAQ]),
              "faq_render")

StepFaqRender ==
    LocalStep("faq_render", "Rendering FAQ page", "faq_page",
              TemplateRendererAgent_execute(
                  [template_type |-> PageType.FAQ,
                   data |-> [product |-> state.product, questions |-> state.questions],
                   strategy |-> locals.faq_strategy], hashSeed),
              "product_strategy")

\* Step 4: Product page.
StepProductStrategy ==
    LocalStep("product_strategy", "Planning Product page strategy", "product_strategy",
              ContentStrategyAgent_execute([product |-> state.product,
                                            page_type |-> PageType.PRODUCT]),
              "product_render")

StepProductRender ==
    LocalStep("product_render", "Rendering Product page", "product_page",
              TemplateRendererAgent_execute(
                  [template_type |-> PageType.PRODUCT,
                   data |-> [product |-> state.product],
                   strategy |-> locals.product_strategy], hashSeed),
              "comparison_data")

\* Step 5: comparison data. A TypeError of the price subtraction leaves
\* execute_pipeline.
StepComparisonData ==
    /\ pc = "comparison_data"
    /\ IF ComparisonAgent_execute_raises(state.product)
       THEN Raise("comparison_data", "Generating competitor and comparison data",
                  TypeError)
       ELSE LocalStep("comparison_data", "Generating competitor and comparison data",
                      "comparison_data", ComparisonAgent_execute(state.product, hashSeed),
                      "comparison_strategy")

\* Step 6: Comparison page.
StepComparisonStrategy ==
    LocalStep("comparison_strategy", "Planning Comparison page strategy",
              "comparison_strategy",
              ContentStrategyAgent_execute([product |-> state.product,
                                            page_type |-> PageType.COMPARISON]),
              "comparison_render")

StepComparisonRender ==
    LocalStep("comparison_render", "Rendering Comparison page", "comparison_page",
              TemplateRendererAgent_execute(
                  [template_type |-> PageType.COMPARISON,
                   data |-> [comparison |-> locals.comparison_data],
                   strategy |-> locals.comparison_strategy], hashSeed),
              "return")

\* return {'faq': ..., 'product': ..., 'comparison': ...}
Return ==
    /\ pc = "return"
    /\ result' = [faq |-> locals.faq_page, product |-> locals.product_page,
                  comparison |-> locals.comparison_page]
    /\ returned' = returned \cup {<<raw, result'>>}
    /\ pc' = IF caller = "main" THEN "main_report" ELSE "idle"
    /\ UNCHANGED <<hashSeed, caller, raw, state, execution_log, locals, error, io, calls,
                   faqVars, cmpVars>>

\* main() prints the completion banner and the three pages.
MainPrintResults ==
    /\ pc = "main_report"
    /\ io' = io \o MainReport(result)
    /\ pc' = "main_save"
    /\ UNCHANGED <<hashSeed, caller, raw, state, execution_log, locals, result, error,
                   calls, returned, faqVars, cmpVars>>

\* main() calls save_outputs(results) and returns.
MainSaveOutputs ==
    /\ pc = "main_save"
    /\ io' = io \o save_outputs(result)
    /\ pc' = "exited"
    /\ UNCHANGED <<hashSeed, caller, raw, state, execution_log, locals, result, error,
                   calls, returned, faqVars, cmpVars>>

Next ==
    \/ NewProcess
    \/ MainBegin
    \/ Construct
    \/ Call
    \/ StepParse
    \/ StepQuestions
    \/ StepFaqStrategy
    \/ StepFaqRender
    \/ StepProductStrategy
    \/ StepProductRender
    \/ StepComparisonData
    \/ StepComparisonStrategy
    \/ StepComparisonRender
    \/ Return
    \/ MainPrintResults
    \/ MainSaveOutputs

Spec == Init /\ [][Next]_vars

\* ------------------------------------------- _render_faq on its own

\* The ProductModel of main's record.
MainProduct == DataParserAgent_execute(MainRawData).value

\* Categories of the questions handed to _render_faq on its own: more of
\* them than max_questions, one of them outside the catalog.
FaqCategories == {"Informational", "Usage", "Safety", "Skin Type", "Benefits", "Other"}

\* The question sequences of length at most MaxQLen over FaqCategories; the
\* text of a question tells its position in the sequence.
FaqInputs ==
    { [i \in 1..Len(cs) |->
          Question(cs[i], "question " \o ToString(i), "answer " \o ToString(i))] :
        cs \in UNION {[1..n -> FaqCategories] : n \in 0..MaxQLen} }

\* One hash seed is enough here: it only orders metadata.categories.
InitFaq ==
    /\ Boot
    /\ hashSeed = 0
    /\ calls = 0
    /\ returned = {}
    /\ faqIn \in FaqInputs
    /\ faqOut = None
    /\ CmpIdle

\* renderer._render_faq({'product': ..., 'questions': faqIn}, strategy)
RenderFaq ==
    /\ faqOut = None
    /\ faqOut' = _render_faq([product |-> MainProduct, questions |-> faqIn],
                             ContentStrategyAgent_execute([product |-> MainProduct,
                                                           page_type |-> PageType.FAQ]),
                             hashSeed)
    /\ UNCHANGED <<hashSeed, pipeVars, faqIn, cmpVars>>

NextFaq == RenderFaq

SpecFaq == InitFaq /\ [][NextFaq]_vars

\* ------------------------------------------- the compare_* blocks on their own

CmpNames == {"GlowBoost Vitamin C Serum", "RadiantGlow Vitamin C Complex"}
CmpPrices == {699, 899, 1200}
CmpIngredients == {"Vitamin C", "Hyaluronic Acid", "Ferulic Acid"}

\* Records that differ from main's in name, price and ingredients.
CmpRecords ==
    { [MainProduct EXCEPT !.name = n, !.price = p, !.ingredients = g] :
        n \in CmpNames, p \in CmpPrices,
        g \in UNION {[1..k -> CmpIngredients] : k \in 0..MaxIngr} }

InitCmp ==
    /\ Boot
    /\ calls = 0
    /\ returned = {}
    /\ FaqIdle
    /\ cmpA \in CmpRecords
    /\ cmpB \in CmpRecords
    /\ cmpOut = None

\* The three comparisons that ComparisonAgent.execute makes, of cmpA and cmpB.
Compare ==
    /\ cmpOut = None
    /\ cmpOut' = [ingredients |-> compare_ingredients(cmpA, cmpB, hashSeed),
                  benefits |-> compare_benefits(cmpA, cmpB),
                  price |-> compare_price(cmpA, cmpB)]
    /\ UNCHANGED <<hashSeed, pipeVars, faqVars, cmpA, cmpB>>

NextCmp == Compare

SpecCmp == InitCmp /\ [][NextCmp]_vars

\* ===================================================================== claims

\* The categories that occur in a question sequence.
CategoriesOf(qs) == {qs[i].category : i \in DOMAIN qs}

\* No two elements of qs have the same category.
DistinctCategories(qs) ==
    \A i, j \in DOMAIN qs : i # j => qs[i].category # qs[j].category

\* C1: for every question sequence handed to _render_faq, the displayed
\* questions are at most max_questions (5) and no two of them have the same
\* category.
C1_FaqAtMostFiveDistinct ==
    faqOut # None =>
        /\ Len(faqOut.questions) <= max_questions
        /\ DistinctCategories(faqOut.questions)

\* C1 happens: six categories were offered, and five questions are displayed.
C1_Witness ==
    /\ faqOut # None
    /\ Cardinality(CategoriesOf(faqIn)) = 6
    /\ Len(faqOut.questions) = 5

\* The positions of faqIn that hold the first question of their category.
FirstPositions(qs) ==
    {i \in DOMAIN qs : \A j \in 1..(i - 1) : qs[j].category # qs[i].category}

\* The n-th smallest element of the set P of numbers.
NthSmallest(P, n) == CHOOSE p \in P : Cardinality({x \in P : x < p}) = n - 1

\* C10: the displayed questions are exactly the first question of each of the
\* first k distinct categories met in the sequence, in the order they are met,
\* where k = min(max_questions, number of distinct categories); no later
\* question of a used category is displayed.
C10_FaqFirstOfEachCategory ==
    faqOut # None =>
        LET k == Min(max_questions, Cardinality(CategoriesOf(faqIn)))
            P == FirstPositions(faqIn)
        IN  /\ Len(faqOut.questions) = k
            /\ faqOut.total_questions = k
            /\ \A n \in 1..k : faqOut.questions[n] = faqIn[NthSmallest(P, n)]

\* C10 happens: a second question of a used category was skipped and a
\* question of a new category after it was displayed.
C10_Witness ==
    /\ faqOut # None
    /\ Len(faqIn) >= 3
    /\ faqIn[1].category = faqIn[2].category
    /\ faqIn[3].category # faqIn[1].category
    /\ Len(faqOut.questions) >= 2
    /\ faqOut.questions[2] = faqIn[3]

\* C4 as stated: for all record pairs (a, b), compare_price reports a's name
\* as the cheaper product if and only if a.price < b.price.
C4_CheaperIffStrictlyLower ==
    cmpOut # None =>
        ((cmpOut.price.cheaper_product = cmpA.name) <=> (cmpA.price < cmpB.price))

\* C4 as amended: for all record pairs (a, b) whose names differ, a's name is
\* reported if and only if a.price < b.price, and b's name otherwise (so with
\* equal prices b's name is reported); one name is reported, never both.
C4_CheaperIffStrictlyLowerDistinctNames ==
    (cmpOut # None /\ cmpA.name # cmpB.name) =>
        /\ (cmpOut.price.cheaper_product = cmpA.name) <=> (cmpA.price < cmpB.price)
        /\ (cmpOut.price.cheaper_product = cmpB.name) <=> (cmpA.price >= cmpB.price)
        /\ cmpA.price = cmpB.price => cmpOut.price.cheaper_product = cmpB.name

\* C4 happens: two records of different names and equal prices were compared.
C4_Witness ==
    /\ cmpOut # None
    /\ cmpA.name # cmpB.name
    /\ cmpA.price = cmpB.price
    /\ cmpOut.price.cheaper_product = cmpB.name

\* C5: for all record pairs (a, b), as sets, common_ingredients with
\* unique_to_product_a is the ingredients of a, and common_ingredients with
\* unique_to_product_b is the ingredients of b.
C5_IngredientPartition ==
    cmpOut # None =>
        LET c == cmpOut.ingredients
        IN  /\ set(c.common_ingredients) \cup set(c.unique_to_product_a)
                  = set(cmpA.ingredients)
            /\ set(c.common_ingredients) \cup set(c.unique_to_product_b)
                  = set(cmpB.ingredients)

\* C5 happens: the two records share an ingredient and each has one of its own.
C5_Witness ==
    /\ cmpOut # None
    /\ cmpOut.ingredients.common_ingredients # <<>>
    /\ cmpOut.ingredients.unique_to_product_a # <<>>
    /\ cmpOut.ingredients.unique_to_product_b # <<>>

\* The Comparison page of the last call.
ComparisonPage == result.comparison

\* C2 as stated: on main's GlowBoost record the Comparison page has
\* product_b.name "RadiantGlow Vitamin C Complex", price difference 200,
\* cheaper product "GlowBoost Vitamin C Serum" and no common ingredient.
C2_GlowBoostNoCommonIngredient ==
    (result # None /\ raw = MainRawData) =>
        /\ ComparisonPage.products.product_b.name = "RadiantGlow Vitamin C Complex"
        /\ ComparisonPage.comparison_matrix.price.difference = 200
        /\ ComparisonPage.comparison_matrix.price.cheaper_product
              = "GlowBoost Vitamin C Serum"
        /\ ComparisonPage.comparison_matrix.ingredients.common_ingredients = <<>>

\* C2 as amended: on main's GlowBoost record the Comparison page has
\* product_b.name "RadiantGlow Vitamin C Complex", price difference 200,
\* cheaper product "GlowBoost Vitamin C Serum", and the common ingredients are
\* ["Vitamin C"], which both ingredient lists hold.
C2_GlowBoostScenario ==
    (result # None /\ raw = MainRawData) =>
        /\ ComparisonPage.products.product_b.name = "RadiantGlow Vitamin C Complex"
        /\ ComparisonPage.comparison_matrix.price.difference = 200
        /\ ComparisonPage.comparison_matrix.price.cheaper_product
              = "GlowBoost Vitamin C Serum"
        /\ ComparisonPage.recommendation.best_for_budget = "GlowBoost Vitamin C Serum"
        /\ ComparisonPage.comparison_matrix.ingredients.common_ingredients
              = <<"Vitamin C">>

\* C2 happens: the script has run main's record to the end.
C2_Witness ==
    /\ pc = "exited"
    /\ caller = "main"
    /\ raw = MainRawData
    /\ result # None
    /\ ComparisonPage.page_type = "comparison"

RECURSIVE TemplatesBefore(_)
\* The number of templates of the catalog's first c categories.
TemplatesBefore(c) ==
    IF c = 0 THEN 0
    ELSE TemplatesBefore(c - 1) + Len(QUESTION_TEMPLATES[c].templates)

\* The total number of templates in QUESTION_TEMPLATES.
TotalTemplates == TemplatesBefore(Len(QUESTION_TEMPLATES))

\* The (category index, template index) pair that is i-th in the catalog's
\* declared category order and then template order.
PairAt(i) ==
    CHOOSE ct \in {<<c, t>> \in (DOMAIN QUESTION_TEMPLATES) \X (1..TotalTemplates) :
                      t \in DOMAIN QUESTION_TEMPLATES[c].templates} :
        TemplatesBefore(ct[1] - 1) + ct[2] = i

\* qs[i] is the Question of the catalog's i-th pair, made for product.
IsCatalogQuestion(qs, i, product) ==
    LET entry == QUESTION_TEMPLATES[PairAt(i)[1]]
        template == entry.templates[PairAt(i)[2]]
    IN  /\ qs[i].category = entry.category
        /\ qs[i].question = template.pre \o product.name \o template.post
        /\ qs[i].answer = _generate_answer(entry.category, product)

\* The question generator has just returned state['questions'] for
\* state['product'].
QuestionsGenerated == pc = "faq_strategy"

\* C3 as stated: the generator returns one Question per (category, template)
\* pair of the catalog, neither padded nor truncated, in catalog order, so the
\* output length is the total number of templates.
C3_OnePerTemplate ==
    QuestionsGenerated =>
        /\ Len(state.questions) = TotalTemplates
        /\ \A i \in 1..TotalTemplates : IsCatalogQuestion(state.questions, i, state.product)

\* C3 as amended: the generator returns the Questions of the first 20
\* (category, template) pairs of the catalog, in the catalog's category order
\* and then template order; the catalog has 22 templates, so the last two
\* Comparison templates yield no question and the output length is 20.
C3_FirstTwentyInCatalogOrder ==
    QuestionsGenerated =>
        /\ TotalTemplates = 22
        /\ Len(state.questions) = 20
        /\ \A i \in 1..20 : IsCatalogQuestion(state.questions, i, state.product)
        /\ state.questions[20].category = "Comparison"
        /\ state.questions[19].category = "Purchase"

\* C3 happens: the generator has just returned for a record other than main's.
C3_Witness ==
    /\ pc = "faq_strategy"
    /\ raw # MainRawData
    /\ Len(state.questions) = 20
    /\ state.questions[20].question
          = "How does RadiantGlow Vitamin C Complex compare to other vitamin C serums?"

\* The closed set of categories.
ClosedCategories ==
    {"Informational", "Usage", "Safety", "Skin Type", "Benefits", "Purchase", "Comparison"}

\* The minimum of the docstring "List of Question objects (minimum 15)".
MinQuestions == 15

\* C8: for every valid record the generator returns at least 15 questions, and
\* the category of each is one of the closed set.
C8_AtLeastFifteenClosedCategories ==
    "questions" \in DOMAIN state =>
        /\ Len(state.questions) >= MinQuestions
        /\ \A i \in DOMAIN state.questions : state.questions[i].category \in ClosedCategories

\* C8 happens: the generator has just returned for a record with empty lists,
\* and every category of the closed set occurs in its output.
C8_Witness ==
    /\ pc = "faq_strategy"
    /\ state.product.benefits = <<>>
    /\ state.product.skin_types = <<>>
    /\ CategoriesOf(state.questions) = ClosedCategories

\* The current call was given a mapping that lacks a required field, and the
\* parser has run on it.
ParsedIncomplete == raw # None /\ MissingFields(raw) # {} /\ pc # "parse"

\* No page exists: none was built by the call and none was returned.
NoPage ==
    /\ result = None
    /\ locals.faq_page = None
    /\ locals.product_page = None
    /\ locals.comparison_page = None

C7_Idempotent ==
    \A x, y \in returned : x[1] = y[1] => x[2] = y[2]

\* The events of io that the code of "by" issued.
EventsBy(by) == SelectSeq(io, LAMBDA e : e.by = by)

\* The file writes of io.
Writes == SelectSeq(io, LAMBDA e : e.kind = "write")

ListFields == {"skin_types", "ingredients", "benefits"}

\* r holds all eight fields.
Complete(r) == MissingFields(r) = {}

\* r holds all eight fields, and its price is not an int or one of its list
\* fields is not a list of str.
IllTyped(r) ==
    /\ Complete(r)
    /\ \/ type_of(r.price) # "declared"
       \/ \E f \in ListFields : type_of(r[f]) # "declared"

\* C11 as stated: when the raw input has all eight fields but its price is
\* not integer-coercible or a list field is not a sequence of strings, the
\* pipeline fails with TypeMismatchError during parsing, before any of the
\* three pages (FAQ, product, comparison) has been built.
C11_TypeMismatchAbortsInParsing ==
    (IllTyped(raw) /\ pc # "parse") =>
        /\ error # None
        /\ error.type = "TypeMismatchError"
        /\ NoPage

\* r holds all eight fields, each of the type ProductModel declares.
WellTyped(r) == Complete(r) /\ ~IllTyped(r)

\* The stage that follows the stage at in execute_pipeline; the return is
\* followed by no stage.
StageAfter(at) ==
    LET i == CHOOSE k \in DOMAIN PipelinePcs : PipelinePcs[k] = at
    IN  IF i < Len(PipelinePcs) THEN PipelinePcs[i + 1] ELSE "none"

\* The fragments that the pages p hold for the list fields of r are as long
\* as the lists: empty for an empty list.
FragmentsFollowLists(p, r) ==
    /\ Len(p.product.details.benefits.items) = Len(r.benefits)
    /\ p.product.details.ingredients.all_ingredients = r.ingredients
    /\ Len(r.ingredients) = 0 => p.product.details.ingredients.primary = None
    /\ p.product.details.skin_types.types = r.skin_types
    /\ p.comparison.products.product_a.ingredients = r.ingredients
    /\ p.comparison.products.product_a.benefits = r.benefits
    /\ Len(r.ingredients) = 0 =>
          /\ p.comparison.comparison_matrix.ingredients.common_ingredients = <<>>
          /\ p.comparison.comparison_matrix.ingredients.unique_to_product_a = <<>>
    /\ p.comparison.comparison_matrix.benefits.product_a_benefits = r.benefits

\* C12: for every well-typed record, also one whose ingredients, benefits or
\* skin_types are empty, once parsing has succeeded every later stage
\* (question generation, the three strategy lookups, comparison, the three
\* renders) completes without raising and hands over to the stage after it,
\* so that the call ends after these nine steps by returning all three pages,
\* whose fragments for empty lists are empty.
C12_NoPartialFailure ==
    [][ (InPipeline /\ pc # "parse" /\ WellTyped(raw)) =>
            /\ error = None
            /\ error' = None
            /\ pc' # "crashed"
            /\ pc # "return" => pc' = StageAfter(pc)
            /\ pc = "return" =>
                  /\ ~InPipeline'
                  /\ DOMAIN result' = {"faq", "product", "comparison"}
                  /\ result'.faq.page_type = "faq"
                  /\ result'.product.page_type = "product"
                  /\ result'.comparison.page_type = "comparison"
                  /\ FragmentsFollowLists(result', raw)
      ]_vars

\* C12 happens: callers have received the three pages for a record of no
\* ingredients and for a record of no benefits and no skin types, with empty
\* fragments in them.
C12_Witness ==
    /\ pc = "idle"
    /\ \E x \in returned :
          /\ Len(x[1].ingredients) = 0
          /\ x[2].product.details.ingredients.all_ingredients = <<>>
          /\ x[2].product.details.ingredients.primary = None
          /\ x[2].comparison.comparison_matrix.ingredients.common_ingredients = <<>>
    /\ \E y \in returned :
          /\ Len(y[1].benefits) = 0
          /\ Len(y[1].skin_types) = 0
          /\ y[2].product.details.benefits.items = <<>>
          /\ y[2].product.details.skin_types.types = <<>>

\* The three pages that the agents make of the raw input r alone, in a
\* process whose hash seed is seed: r parsed, the questions of the parsed
\* record, and the three strategies, comparison and renders of these.
PagesOf(r, seed) ==
    LET product == DataParserAgent_execute(r).value
        questions == QuestionGeneratorAgent_execute(product)
        strategy(page_type) ==
            ContentStrategyAgent_execute([product |-> product, page_type |-> page_type])
    IN  [faq |->
            TemplateRendererAgent_execute(
                [template_type |-> PageType.FAQ,
                 data |-> [product |-> product, questions |-> questions],
                 strategy |-> strategy(PageType.FAQ)], seed),
         product |->
            TemplateRendererAgent_execute(
                [template_type |-> PageType.PRODUCT,
                 data |-> [product |-> product],
                 strategy |-> strategy(PageType.PRODUCT)], seed),
         comparison |->
            TemplateRendererAgent_execute(
                [template_type |-> PageType.COMPARISON,
                 data |-> [comparison |-> ComparisonAgent_execute(product, seed)],
                 strategy |-> strategy(PageType.COMPARISON)], seed)]

\* C13: on one orchestrator, whatever calls came before, the pages that a
\* successful call returns are the pages made of that call's raw input alone
\* (in the orchestrator's process), not of the state['product'] or
\* state['questions'] an earlier call left; and a call that fails during
\* parsing leaves state as the previous call left it and appends exactly one
\* entry, "Parsing product data", to execution_log.
C13_ReusedOrchestrator ==
    [][ /\ pc = "return" => result' = PagesOf(raw, hashSeed)
        /\ (pc = "idle" /\ pc' = "parse") =>
              /\ state' = state
              /\ execution_log' = execution_log
        /\ (pc = "parse" /\ ~Complete(raw)) =>
              /\ error' # None
              /\ pc' \in {"idle", "crashed"}
              /\ state' = state
              /\ execution_log' = Append(execution_log, "Parsing product data")
      ]_vars

\* C13 happens: the second call on an orchestrator has returned the pages of
\* its own record, after a first call that left another record in
\* state['product'] and that record's questions in state['questions'] (it
\* failed at step 5, after seven log entries; the second call added nine).
C13_Witness ==
    /\ pc = "idle"
    /\ result # None
    /\ Len(execution_log) = 16
    /\ execution_log[7] = "Generating competitor and comparison data"
    /\ execution_log[8] = "Parsing product data"
    /\ result.product.hero.product_name = raw.name
    /\ result.product.pricing.amount = raw.price

====
